---- MODULE Spec2Model ----
(***************************************************************************)
(* Open-addressing hash map with double hashing (src/src/hashmap.c).       *)
(* The state is one HashMap (slots, size, capacity); the operations are    *)
(* hashmap_insert, hashmap_remove and hashmap_get with hashtable_expand    *)
(* and hashtable_slot_insert as their helpers.                             *)
(***************************************************************************)
EXTENDS Integers, Sequences, FiniteSets, TLC

(* ---------------- bounds of the model ---------------- *)
NumKeys == 3        \* distinct key strings the callers use
NumVals == 2        \* distinct non-null value pointers the callers use
MaxIns == 3         \* successful hashmap_insert calls in one behaviour
MaxCap == 8         \* largest capacity an expansion may produce
InitCaps == {2, 8}  \* capacities handed to hashmap_create
\* Hashes the key strings may have.  Up to capacity 8 only k mod 8 decides the
\* probe sequence: with k = 3 the step h2 is 0 mod 4 and mod 8 (one slot is
\* probed for ever), with k = 4 the step is odd (every slot is probed).
HashVals == {3, 4}

(* ---------------- program constants ---------------- *)
NULL == 0
HT_EXPANSION_FACTOR == 2
HT_PRIME == 37
EMPTY == 0
INSERTED == 1
DELETED == 2

Keys == 1..NumKeys
Values == 1..NumVals

VARIABLES
    slots,      \* hm->slots: index -> HashSlot, or NullSlots for a NULL pointer
    size,       \* hm->size
    capacity,   \* hm->capacity
    fnv,        \* fnv32a_hash_str: the hash of each key string (fixed at Init)
    pc,         \* "ready" | "hang" (a probe loop that never ends) | "segv" |
                \* "freed" (after hashmap_free)
    lastOp,     \* the last call: [op, key, value, ret, oom]
    expect,     \* ghost: key -> value of its last successful insert, NULL once a
                \* hashmap_remove of the key has returned 1
    nIns,       \* ghost: successful inserts so far
    nRem,       \* ghost: successful removes so far
    onlyIns,    \* ghost: no hashmap_remove and no NULL-value insert so far
    distinctIns,\* ghost: every successful insert so far was of a key not stored
    keyHeap,    \* ghost: key strings made by strdup and not yet passed to free
    limits      \* bounds of the behaviour, fixed at Init: [ins |-> successful
                \* inserts allowed, cap |-> largest capacity an expansion may make]

vars == <<slots, size, capacity, fnv, pc, lastOp, expect, nIns, nRem, onlyIns,
          distinctIns, keyHeap, limits>>

HashSlot(k, v, st) == [key |-> k, value |-> v, state |-> st]

\* calloc: every byte zero
ZeroSlot == HashSlot(NULL, NULL, EMPTY)

\* a NULL slot array
NullSlots == [i \in {} |-> ZeroSlot]

calloc(n) == [i \in 0..(n - 1) |-> ZeroSlot]

(* ---------------- hash_key ---------------- *)
\* m - HT_PRIME in size_t: below 37 the difference wraps to 2^64 - (37 - m),
\* which is larger than every 32-bit hash k, so k % (m - HT_PRIME) is k.
\* m = 37 divides by zero; no capacity of the model is 37 (InitCaps doubles to
\* even numbers only), so that case has no arm.
\* mutant of h2_of: the offset HT_PRIME is not added
h2_of_nooffset(k, m) ==
    CASE m > HT_PRIME -> k % (m - HT_PRIME)
      [] m < HT_PRIME -> k

h2_of(k, m) ==
    CASE m > HT_PRIME -> HT_PRIME + (k % (m - HT_PRIME))
      [] m < HT_PRIME -> HT_PRIME + k

hash_key(str, rounds, m) ==
    IF str = NULL THEN 0
    ELSE LET k == fnv[str]
             h1 == k % m
             h2 == h2_of(k, m)
         IN  (h1 + (rounds * h2)) % m

(* ---------------- the probe loops ---------------- *)
\* A probe loop has no round limit in the source.  The indexes
\* (h1 + r * h2) % m repeat with period m / gcd(h2, m), so a loop that has not
\* stopped after that many rounds has seen every slot of its sequence and
\* revisits them for ever (r * h2 stays far below 2^64 here, and for a
\* power-of-two m the wrap at 2^64 would not change the index either): that
\* outcome is "hang".
RECURSIVE GCD(_, _)
GCD(a, b) == IF b = 0 THEN a ELSE GCD(b, a % b)

ProbeLimit(key, m) == m \div GCD(m, h2_of(fnv[key], m) % m)

\* while (slots[index].key != NULL && slots[index].state != EMPTY)
Busy(slot) == slot.key # NULL /\ slot.state # EMPTY

RECURSIVE slot_insert_loop(_, _, _, _)
slot_insert_loop(s, cap, key, checks) ==
    LET index == hash_key(key, checks, cap) IN
    IF checks >= ProbeLimit(key, cap) THEN [kind |-> "hang", index |-> index, checks |-> checks]
    ELSE IF Busy(s[index])
         THEN IF s[index].key = key
              THEN [kind |-> "match", index |-> index, checks |-> checks]
              ELSE slot_insert_loop(s, cap, key, checks + 1)
         ELSE [kind |-> "free", index |-> index, checks |-> checks]

\* mutant of remove_loop: the strcmp is dropped, any busy slot matches
remove_loop_nocmp(s, cap, key, checks) ==
    LET index == hash_key(key, checks, cap) IN
    IF Busy(s[index])
    THEN [kind |-> "match", index |-> index, checks |-> checks]
    ELSE [kind |-> "free", index |-> index, checks |-> checks]

RECURSIVE remove_loop(_, _, _, _)
remove_loop(s, cap, key, checks) ==
    LET index == hash_key(key, checks, cap) IN
    IF checks >= ProbeLimit(key, cap) THEN [kind |-> "hang", index |-> index, checks |-> checks]
    ELSE IF Busy(s[index])
         THEN IF s[index].key = key
              THEN [kind |-> "match", index |-> index, checks |-> checks]
              ELSE remove_loop(s, cap, key, checks + 1)
         ELSE [kind |-> "free", index |-> index, checks |-> checks]

RECURSIVE get_loop(_, _, _, _)
get_loop(s, cap, key, checks) ==
    LET index == hash_key(key, checks, cap) IN
    IF checks >= ProbeLimit(key, cap) THEN [kind |-> "hang", index |-> index, checks |-> checks]
    ELSE IF Busy(s[index])
         THEN IF s[index].key = key
              THEN [kind |-> "match", index |-> index, checks |-> checks]
              ELSE get_loop(s, cap, key, checks + 1)
         ELSE [kind |-> "free", index |-> index, checks |-> checks]

(* ---------------- hashtable_slot_insert ---------------- *)
\* Result: ret (the stored key, or NULL), the slot array afterwards, whether the
\* loop hangs, whether strdup was called and failed, and whether strdup made a
\* new key string.  cpy = 0 duplicates the key with strdup, which succeeds
\* exactly when strdupOk.
SlotResult(ret, s, hang, oom, dup) ==
    [ret |-> ret, slots |-> s, hang |-> hang, oom |-> oom, dup |-> dup]

hashtable_slot_insert(s, cap, key, value, cpy, strdupOk) ==
    IF DOMAIN s = {} THEN SlotResult(NULL, s, FALSE, FALSE, FALSE)
    ELSE LET p == slot_insert_loop(s, cap, key, 0) IN
         CASE p.kind = "hang" -> SlotResult(NULL, s, TRUE, FALSE, FALSE)
           [] p.kind = "match" ->
                SlotResult(key, [s EXCEPT ![p.index].value = value], FALSE, FALSE,
                           FALSE)
           [] p.kind = "free" ->
                IF cpy = 0 /\ ~strdupOk
                THEN SlotResult(NULL, s, FALSE, TRUE, FALSE)
                ELSE SlotResult(key,
                                [s EXCEPT ![p.index] = HashSlot(key, value, INSERTED)],
                                FALSE, FALSE, cpy = 0)

(* ---------------- hashtable_expand ---------------- *)
\* the for loop of lines 120-126, from old index i on, filling new_slots
RECURSIVE rehash(_, _, _, _, _)
rehash(old, cap, new_slots, new_capacity, i) ==
    IF i >= cap THEN [slots |-> new_slots, hang |-> FALSE]
    ELSE IF old[i].state = INSERTED
         THEN LET r == hashtable_slot_insert(new_slots, new_capacity,
                                             old[i].key, old[i].value, 1, TRUE)
              IN  IF r.hang THEN [slots |-> new_slots, hang |-> TRUE]
                  ELSE rehash(old, cap, r.slots, new_capacity, i + 1)
         ELSE rehash(old, cap, new_slots, new_capacity, i + 1)

\* mutant of hashtable_expand: the old entries are not rehashed
hashtable_expand_norehash(s, cap, callocOk) ==
    LET new_capacity == cap * HT_EXPANSION_FACTOR
    IN  [slots |-> IF callocOk THEN calloc(new_capacity) ELSE NullSlots,
         capacity |-> new_capacity, hang |-> FALSE]

\* calloc of the new array succeeds exactly when callocOk; its result is used
\* unchecked.  Result: the new slots and capacity, or hang.
hashtable_expand(s, cap, callocOk) ==
    LET new_capacity == cap * HT_EXPANSION_FACTOR
        new_slots == IF callocOk THEN calloc(new_capacity) ELSE NullSlots
        r == rehash(s, cap, new_slots, new_capacity, 0)
    IN  [slots |-> r.slots, capacity |-> new_capacity, hang |-> r.hang]

(* ---------------- hashmap_get ---------------- *)
\* The value hashmap_get returns for key in the table (s, cap): the stored
\* value, NULL, or the marker Hang (the loop never ends) / Segv (hm->slots is
\* NULL and is dereferenced: the process is killed) when the call does not
\* return.
Hang == -1
Segv == -2

hashmap_get(s, cap, key) ==
    IF key = NULL THEN NULL
    ELSE IF DOMAIN s = {} THEN Segv
    ELSE LET p == get_loop(s, cap, key, 0) IN
         CASE p.kind = "match" -> s[p.index].value
           [] p.kind = "free" -> NULL
           [] p.kind = "hang" -> Hang

\* some Occupied slot holds key
Stored(s, key) == \E i \in DOMAIN s : s[i].state = INSERTED /\ s[i].key = key

Call(op, key, value, ret, oom) ==
    [op |-> op, key |-> key, value |-> value, ret |-> ret, oom |-> oom]

(* ---------------- hashmap_insert ---------------- *)
\* The table and the return value after hashmap_insert(hm, key, value); ret is
\* the stored key or NULL; pc is "hang" when a probe loop never ends; oom names
\* the allocation that failed in the call; dup tells that strdup made a new key
\* string for the table.
InsertResult(s, sz, cap, ret, p, oom, dup) ==
    [slots |-> s, size |-> sz, capacity |-> cap, ret |-> ret, pc |-> p, oom |-> oom,
     dup |-> dup]

\* mutant of NeedsExpand: the size is compared with the whole capacity
NeedsExpand_nohalf(sz, cap) == sz >= cap

\* mutant of NeedsExpand: the size after the placement is compared
NeedsExpand_afterplace(sz, cap) == sz + 1 >= (cap \div HT_EXPANSION_FACTOR)

NeedsExpand(sz, cap) == sz >= (cap \div HT_EXPANSION_FACTOR)

\* mutant of hashmap_insert: the NULL value is rejected only after the resize
hashmap_insert_latecheck(s, sz, cap, key, value, callocOk, strdupOk) ==
    IF DOMAIN s = {} THEN InsertResult(s, sz, cap, NULL, "ready", "none", FALSE)
    ELSE LET e == IF NeedsExpand(sz, cap)
                  THEN hashtable_expand(s, cap, callocOk)
                  ELSE [slots |-> s, capacity |-> cap, hang |-> FALSE]
         IN  IF e.hang
             THEN InsertResult(s, sz, cap, NULL, "hang", "none", FALSE)
             ELSE IF value = NULL
             THEN InsertResult(e.slots, sz, e.capacity, NULL, "ready", "none", FALSE)
             ELSE LET r == hashtable_slot_insert(e.slots, e.capacity, key, value,
                                                 0, strdupOk)
                  IN  CASE r.hang ->
                             InsertResult(e.slots, sz, e.capacity, NULL, "hang", "none",
                                          FALSE)
                        [] ~r.hang /\ r.ret = NULL ->
                             InsertResult(r.slots, sz, e.capacity, NULL, "ready",
                                          IF r.oom THEN "strdup" ELSE "calloc", FALSE)
                        [] ~r.hang /\ r.ret # NULL ->
                             InsertResult(r.slots, sz + 1, e.capacity, r.ret,
                                          "ready", "none", r.dup)

hashmap_insert(s, sz, cap, key, value, callocOk, strdupOk) ==
    IF DOMAIN s = {} \/ value = NULL
    THEN InsertResult(s, sz, cap, NULL, "ready", "none", FALSE)
    ELSE LET e == IF NeedsExpand(sz, cap)
                  THEN hashtable_expand(s, cap, callocOk)
                  ELSE [slots |-> s, capacity |-> cap, hang |-> FALSE]
         IN  IF e.hang
             THEN InsertResult(s, sz, cap, NULL, "hang", "none", FALSE)
             ELSE LET r == hashtable_slot_insert(e.slots, e.capacity, key, value,
                                                 0, strdupOk)
                  IN  CASE r.hang ->
                             InsertResult(e.slots, sz, e.capacity, NULL, "hang", "none",
                                          FALSE)
                        [] ~r.hang /\ r.ret = NULL ->
                             InsertResult(r.slots, sz, e.capacity, NULL, "ready",
                                          IF r.oom THEN "strdup" ELSE "calloc", FALSE)
                        [] ~r.hang /\ r.ret # NULL ->
                             InsertResult(r.slots, sz + 1, e.capacity, r.ret,
                                          "ready", "none", r.dup)

(* ---------------- hashmap_remove ---------------- *)
RemoveResult(s, sz, ret, p) == [slots |-> s, size |-> sz, ret |-> ret, pc |-> p]

\* mutant of hashmap_remove: the slot is zeroed, state EMPTY instead of DELETED
hashmap_remove_toempty(s, sz, cap, key) ==
    IF DOMAIN s = {} THEN RemoveResult(s, sz, 0, "segv")
    ELSE LET p == remove_loop(s, cap, key, 0) IN
         CASE p.kind = "hang" -> RemoveResult(s, sz, 0, "hang")
           [] p.kind = "free" -> RemoveResult(s, sz, 0, "ready")
           [] p.kind = "match" ->
                RemoveResult([s EXCEPT ![p.index] = ZeroSlot], sz - 1, 1, "ready")

\* mutant of hashmap_remove: size is decremented, the slot is not cleared
hashmap_remove_keepslot(s, sz, cap, key) ==
    IF DOMAIN s = {} THEN RemoveResult(s, sz, 0, "segv")
    ELSE LET p == remove_loop(s, cap, key, 0) IN
         CASE p.kind = "hang" -> RemoveResult(s, sz, 0, "hang")
           [] p.kind = "free" -> RemoveResult(s, sz, 0, "ready")
           [] p.kind = "match" -> RemoveResult(s, sz - 1, 1, "ready")

\* mutant of hashmap_remove: the slot is cleared, size is not decremented
hashmap_remove_nodec(s, sz, cap, key) ==
    IF DOMAIN s = {} THEN RemoveResult(s, sz, 0, "segv")
    ELSE LET p == remove_loop(s, cap, key, 0) IN
         CASE p.kind = "hang" -> RemoveResult(s, sz, 0, "hang")
           [] p.kind = "free" -> RemoveResult(s, sz, 0, "ready")
           [] p.kind = "match" ->
                RemoveResult([s EXCEPT ![p.index] = HashSlot(NULL, NULL, DELETED)],
                             sz, 1, "ready")

hashmap_remove(s, sz, cap, key) ==
    IF DOMAIN s = {} THEN RemoveResult(s, sz, 0, "segv")
    ELSE LET p == remove_loop(s, cap, key, 0) IN
         CASE p.kind = "hang" -> RemoveResult(s, sz, 0, "hang")
           [] p.kind = "free" -> RemoveResult(s, sz, 0, "ready")
           [] p.kind = "match" ->
                RemoveResult([s EXCEPT ![p.index] = HashSlot(NULL, NULL, DELETED)],
                             sz - 1, 1, "ready")

(* ---------------- the state machine ---------------- *)
\* hashmap_create(capacity): size 0, capacity slots all zero.  The string hash
\* is an arbitrary function of the key, chosen once; key names are
\* interchangeable, so the keys are numbered in the order of their hashes.
Init ==
    /\ capacity \in InitCaps
    /\ slots = calloc(capacity)
    /\ size = 0
    /\ fnv \in [Keys -> HashVals]
    /\ \A j, k \in Keys : j <= k => fnv[j] <= fnv[k]
    /\ pc = "ready"
    /\ lastOp = Call("create", NULL, NULL, NULL, "none")
    /\ expect = [k \in Keys |-> NULL]
    /\ nIns = 0
    /\ nRem = 0
    /\ onlyIns = TRUE
    /\ distinctIns = TRUE
    /\ keyHeap = 0
    /\ limits = [ins |-> MaxIns, cap |-> MaxCap]

\* The effect of a hashmap_insert(hm, key, value) call whose outcome is r.
InsertReturns(key, value, r) ==
    LET ok == r.pc = "ready" /\ r.ret # NULL
    IN  /\ slots' = r.slots
        /\ size' = r.size
        /\ capacity' = r.capacity
        /\ pc' = r.pc
        /\ lastOp' = Call("insert", key, value, r.ret, r.oom)
        /\ expect' = IF ok THEN [expect EXCEPT ![key] = value] ELSE expect
        /\ nIns' = IF ok THEN nIns + 1 ELSE nIns
        /\ distinctIns' = IF ok THEN distinctIns /\ ~Stored(slots, key)
                          ELSE distinctIns
        /\ onlyIns' = (onlyIns /\ value # NULL)
        /\ keyHeap' = IF r.dup THEN keyHeap + 1 ELSE keyHeap
        /\ UNCHANGED <<fnv, nRem, limits>>

\* A call may be made while the program runs, within the bounds of the model.
InsertEnabled(value) ==
    /\ pc = "ready"
    /\ nIns < limits.ins
    /\ (DOMAIN slots # {} /\ value # NULL /\ NeedsExpand(size, capacity))
          => capacity * HT_EXPANSION_FACTOR <= limits.cap

\* hashmap_insert of a non-null value, every allocation succeeding
InsertValue ==
    \E key \in DOMAIN fnv, value \in Values :
        /\ InsertEnabled(value)
        /\ \E r \in {hashmap_insert(slots, size, capacity, key, value, TRUE, TRUE)} :
              InsertReturns(key, value, r)

\* hashmap_insert of a NULL value
InsertNull ==
    \E key \in DOMAIN fnv :
        /\ InsertEnabled(NULL)
        /\ \E r \in {hashmap_insert(slots, size, capacity, key, NULL, TRUE, TRUE)} :
              InsertReturns(key, NULL, r)

\* hashmap_insert in which calloc (hashtable_expand) or strdup fails
InsertOOM ==
    \E key \in DOMAIN fnv, value \in Values, callocOk \in BOOLEAN, strdupOk \in BOOLEAN :
        /\ InsertEnabled(value)
        /\ callocOk # strdupOk
        /\ \E r \in {hashmap_insert(slots, size, capacity, key, value,
                                    callocOk, strdupOk)} :
              /\ r.oom # "none"
              /\ InsertReturns(key, value, r)

Remove ==
    \E key \in DOMAIN fnv :
        /\ pc = "ready"
        /\ \E r \in {hashmap_remove(slots, size, capacity, key)} :
           /\ slots' = r.slots
           /\ size' = r.size
           /\ pc' = r.pc
           /\ lastOp' = Call("remove", key, NULL, r.ret, "none")
           /\ expect' = IF r.ret = 1 THEN [expect EXCEPT ![key] = NULL] ELSE expect
           /\ nRem' = nRem + r.ret
        /\ onlyIns' = FALSE
        /\ UNCHANGED <<capacity, fnv, nIns, distinctIns, keyHeap, limits>>

Get ==
    \E key \in DOMAIN fnv :
        /\ pc = "ready"
        /\ \E v \in {hashmap_get(slots, capacity, key)} :
           /\ pc' = (CASE v = Hang -> "hang" [] v = Segv -> "segv" [] OTHER -> "ready")
           /\ lastOp' = Call("get", key, NULL, IF v \in {Hang, Segv} THEN NULL ELSE v,
                             "none")
        /\ UNCHANGED <<slots, size, capacity, fnv, expect, nIns, nRem, onlyIns,
                       distinctIns, keyHeap, limits>>

\* every allocation succeeds
Next == InsertValue \/ InsertNull \/ Remove \/ Get

Spec == Init /\ [][Next]_vars

\* calloc and strdup may fail
NextOOM == InsertValue \/ InsertNull \/ Remove \/ Get \/ InsertOOM

SpecOOM == Init /\ [][NextOOM]_vars

TypeOK ==
    /\ capacity \in Nat \ {0}
    /\ size \in Nat
    /\ pc \in {"ready", "hang", "segv", "freed"}
    /\ DOMAIN slots \in {{}, 0..(capacity - 1)}
    /\ \A i \in DOMAIN slots :
          /\ slots[i].key \in DOMAIN fnv \cup {NULL}
          /\ slots[i].value \in Values \cup {NULL}
          /\ slots[i].state \in {EMPTY, INSERTED, DELETED}
    /\ fnv \in [DOMAIN fnv -> Nat]
    /\ expect \in [DOMAIN fnv -> Values \cup {NULL}]
    /\ nIns \in 0..limits.ins
    /\ nRem \in Nat
    /\ keyHeap \in Nat
    /\ onlyIns \in BOOLEAN /\ distinctIns \in BOOLEAN

(* ======================= claims ======================= *)

\* C1: in a run made only of hashmap_insert calls of non-null values (resizes
\* included), hashmap_get(k) returns the value of the last insert of k, for
\* every key k that was inserted.
C1_GetReturnsLastInsert ==
    onlyIns =>
        \A k \in Keys : expect[k] # NULL => hashmap_get(slots, capacity, k) = expect[k]

\* C1 witness: only inserts so far, the second one grew the table from
\* capacity 2 to 4, and two keys are in it, one of them found at a later probe
\* round.
C1_Witness ==
    /\ onlyIns /\ pc = "ready" /\ capacity = 4 /\ nIns = 2
    /\ lastOp.op = "insert" /\ lastOp.ret # NULL
    /\ \E a, b \in Keys : a # b /\ expect[a] # NULL /\ expect[b] # NULL
                          /\ hashmap_get(slots, capacity, a) = expect[a]
                          /\ get_loop(slots, capacity, b, 0).checks > 0

\* C2 (as claimed): a successful hashmap_remove(a) leaves hashmap_get(b)
\* unchanged for every other key b (for which hashmap_get returned before).
C2_RemoveKeepsOtherKeys ==
    [][(lastOp'.op = "remove" /\ lastOp'.ret = 1 /\ pc' = "ready") =>
          \A b \in Keys \ {lastOp'.key} :
              hashmap_get(slots, capacity, b) # Hang =>
                  hashmap_get(slots', capacity', b) = hashmap_get(slots, capacity, b)]_vars

\* C3 (as claimed): hashmap_insert of a key that an Occupied slot already holds
\* overwrites the value and leaves size unchanged.
C3_ReinsertKeepsSize ==
    [][(lastOp'.op = "insert" /\ lastOp'.ret # NULL /\ pc' = "ready"
        /\ Stored(slots, lastOp'.key)) => size' = size]_vars

\* C4: right after hashmap_remove(k) has returned, with either result,
\* hashmap_get(k) returns NULL.
C4_RemoveThenGetAbsent ==
    (lastOp.op = "remove" /\ pc = "ready") =>
        hashmap_get(slots, capacity, lastOp.key) = NULL

\* C4 witness: a remove that reported a removal, other keys still stored.
C4_Witness ==
    /\ lastOp.op = "remove" /\ lastOp.ret = 1 /\ pc = "ready" /\ size > 0
    /\ \E i \in DOMAIN slots : slots[i].state = DELETED

\* C5: as long as every successful insert was of a key no Occupied slot held,
\* size equals the number of successful inserts minus the number of
\* successful removes.
C5_SizeIsInsertsMinusRemoves ==
    distinctIns => size = nIns - nRem

\* C5 witness: three distinct-key inserts and two successful removes.
C5_Witness ==
    distinctIns /\ nIns = 3 /\ nRem = 2 /\ size = 1 /\ pc = "ready"

\* C6: a hashmap_remove(k) that returns, for a key k no Occupied slot holds,
\* returns 0 and changes neither the slots nor size nor capacity.
C6_RemoveAbsentNoChange ==
    [][(lastOp'.op = "remove" /\ pc' = "ready" /\ ~Stored(slots, lastOp'.key)) =>
          (lastOp'.ret = 0 /\ UNCHANGED <<slots, size, capacity>>)]_vars

\* C6 witness: remove of an absent key returned 0 on a table that holds another
\* key and a tombstone.
C6_Witness ==
    /\ lastOp.op = "remove" /\ lastOp.ret = 0 /\ pc = "ready"
    /\ ~Stored(slots, lastOp.key) /\ size > 0
    /\ \E i \in DOMAIN slots : slots[i].state = DELETED

\* C7: hashmap_insert with a NULL value returns NULL and changes neither the
\* slots nor size nor capacity (no resize), whatever the load of the table.
C7_NullValueRejected ==
    [][(lastOp'.op = "insert" /\ lastOp'.value = NULL) =>
          (lastOp'.ret = NULL /\ pc' = "ready"
           /\ UNCHANGED <<slots, size, capacity>>)]_vars

\* C7 witness: a NULL-value insert was made on a table with size >= capacity/2.
C7_Witness ==
    /\ lastOp.op = "insert" /\ lastOp.value = NULL /\ lastOp.ret = NULL
    /\ DOMAIN slots # {} /\ NeedsExpand(size, capacity) /\ size > 0

\* C8 (as claimed): when strdup fails inside hashmap_insert the call returns
\* NULL and slots, size and capacity are what they were before the call.
C8_StrdupFailureNoChange ==
    [][(lastOp'.op = "insert" /\ lastOp'.oom = "strdup") =>
          (lastOp'.ret = NULL /\ UNCHANGED <<slots, size, capacity>>)]_vars

\* C9 (as claimed): when calloc of the new slot array fails in
\* hashtable_expand the table keeps its slot array, capacity and size.
C9_CallocFailureNoChange ==
    [][(lastOp'.op = "insert" /\ lastOp'.oom = "calloc") =>
          UNCHANGED <<slots, size, capacity>>]_vars

\* the probe round and slot at which hashmap_get finds key
RoundOf(key) == get_loop(slots, capacity, key, 0).checks
SlotOf(key) == get_loop(slots, capacity, key, 0).index

\* C10 (as claimed): on a table of capacity 8, after inserting two distinct
\* keys a and b with the same h1 = k mod 8, the second insert has returned,
\* hashmap_get returns each key's own value, and b sits at a later probe round
\* in another slot than a.
C10_CollidingKeysBothStored ==
    \A a, b \in Keys :
        (/\ a # b /\ capacity = 8 /\ onlyIns /\ nIns <= 2 /\ nRem = 0
         /\ fnv[a] % 8 = fnv[b] % 8
         /\ Stored(slots, a) /\ lastOp.op = "insert" /\ lastOp.key = b)
        => /\ pc = "ready"
           /\ hashmap_get(slots, capacity, a) = expect[a]
           /\ hashmap_get(slots, capacity, b) = expect[b]
           /\ RoundOf(b) > 0
           /\ SlotOf(b) # SlotOf(a)

(* ---------------- hashmap_create(8), then inserts of four keys ---------------- *)
\* The worked example of the resize rule: capacity 8, four distinct keys, four
\* inserts; an expansion to 16 is within the bounds.
FourKeys == 1..4

InitFour ==
    /\ capacity = 8
    /\ slots = calloc(capacity)
    /\ size = 0
    /\ fnv \in [FourKeys -> HashVals]
    /\ \A j, k \in FourKeys : j <= k => fnv[j] <= fnv[k]
    /\ pc = "ready"
    /\ lastOp = Call("create", NULL, NULL, NULL, "none")
    /\ expect = [k \in FourKeys |-> NULL]
    /\ nIns = 0
    /\ nRem = 0
    /\ onlyIns = TRUE
    /\ distinctIns = TRUE
    /\ keyHeap = 0
    /\ limits = [ins |-> Cardinality(FourKeys), cap |-> 8 * HT_EXPANSION_FACTOR]

NextFour == InsertValue \/ Get

SpecFour == InitFour /\ [][NextFour]_vars

\* all four keys were inserted, each once, and nothing else changed the table
FourInserted == distinctIns /\ nIns = Cardinality(FourKeys) /\ nRem = 0

\* C11 (as claimed): after hashmap_create(8) and inserts of four distinct keys
\* the fourth insert has resized the table: size is 4 and capacity is 16.
C11_FourthInsertResizes == FourInserted => (size = 4 /\ capacity = 16)

\* C11 (amended): after hashmap_create(8) and inserts of four distinct keys no
\* resize has happened: size is 4 and capacity is still 8, because the check
\* of the fourth insert sees size 3, which is below 8 / 2.
C11_FourInsertsNoResize == FourInserted => (size = 4 /\ capacity = 8)

\* C11 witness: the fourth insert of four distinct keys has returned.
C11_Witness ==
    /\ FourInserted /\ pc = "ready"
    /\ lastOp.op = "insert" /\ lastOp.ret # NULL
    /\ \A k \in FourKeys : Stored(slots, k)

(* ---------------- hashmap_free ---------------- *)
\* slots whose key pointer is not NULL: the pointers hashmap_free passes to free
KeysHeld(s) == Cardinality({i \in DOMAIN s : s[i].key # NULL})

\* hashmap_free(hm): free(slots[i].key) for every i below capacity, then the
\* array and the map.  Every non-null key pointer of a slot is a string of its
\* own (made by strdup, moved by hashtable_expand), so each is freed once here.
\* With a NULL slot array the first slots[i] is a NULL dereference.
Free ==
    /\ pc = "ready"
    /\ pc' = IF DOMAIN slots = {} THEN "segv" ELSE "freed"
    /\ keyHeap' = keyHeap - KeysHeld(slots)
    /\ lastOp' = Call("free", NULL, NULL, NULL, "none")
    /\ UNCHANGED <<slots, size, capacity, fnv, expect, nIns, nRem, onlyIns,
                   distinctIns, limits>>

NextFree == InsertValue \/ InsertNull \/ Remove \/ Get \/ Free

SpecFree == Init /\ [][NextFree]_vars

\* C12 (as claimed): once hashmap_free has run, after any inserts, removes and
\* resizes, no key string that the table allocated is still allocated (each
\* was released by the remove of its key or by hashmap_free).
C12_NoKeyStringLeaked == pc = "freed" => keyHeap = 0

(* ---------------- invariants of the slot array ---------------- *)
\* the Occupied slots
Occupied(s) == {i \in DOMAIN s : s[i].state = INSERTED}

\* C13 (as claimed): in every reachable state each key is held by at most one
\* Occupied slot.
C13_KeyInAtMostOneSlot ==
    \A k \in DOMAIN fnv : Cardinality({i \in Occupied(slots) : slots[i].key = k}) <= 1

\* C14 (as claimed): in every reachable state size is the number of Occupied
\* slots.
C14_SizeIsOccupiedCount == size = Cardinality(Occupied(slots))

\* C15: once a hashmap_insert has succeeded, size < capacity in every state.
C15_SizeBelowCapacity == nIns > 0 => size < capacity

\* C15 witness: after a remove, a successful insert has doubled the capacity
\* and left the table exactly half full.
C15_Witness ==
    /\ lastOp.op = "insert" /\ lastOp.ret # NULL /\ pc = "ready"
    /\ nRem > 0 /\ capacity = 4 /\ size = 2

(* ---------------- a table of capacity above HT_PRIME ---------------- *)
\* hashmap_create(128).  At m = 128 the step h2 = 37 + k % 91 is 64 when
\* k % 91 = 27; the hashes below are those of "ajz", "eh" and "ell" under
\* 32-bit FNV-1a, all with k % 91 = 27 and k % 64 = 24.
BigCap == 128
BigHashVals == {557083736, 991583256, 1585992344}

InitBig ==
    /\ capacity = BigCap
    /\ slots = calloc(capacity)
    /\ size = 0
    /\ fnv \in [Keys -> BigHashVals]
    /\ \A j, k \in Keys : j <= k => fnv[j] <= fnv[k]
    /\ pc = "ready"
    /\ lastOp = Call("create", NULL, NULL, NULL, "none")
    /\ expect = [k \in Keys |-> NULL]
    /\ nIns = 0
    /\ nRem = 0
    /\ onlyIns = TRUE
    /\ distinctIns = TRUE
    /\ keyHeap = 0
    /\ limits = [ins |-> MaxIns, cap |-> BigCap]

SpecBig == InitBig /\ [][Next]_vars

\* C16 (as claimed): with capacity m > 37, for every key the probe loops of
\* hashmap_get, hashmap_insert and hashmap_remove end within m rounds, at a
\* free slot or at the key.
C16_ProbeLoopsTerminate ==
    (capacity > HT_PRIME /\ DOMAIN slots # {}) =>
        \A key \in DOMAIN fnv :
            /\ get_loop(slots, capacity, key, 0).kind # "hang"
            /\ slot_insert_loop(slots, capacity, key, 0).kind # "hang"
            /\ remove_loop(slots, capacity, key, 0).kind # "hang"

(* ---------------- colliding keys, one more insert ---------------- *)
\* hashmap_create(2) with keys that all have the same hash, the step odd, and
\* one more successful insert than in Spec: two expansions and a re-insert
\* after a remove fit in one behaviour.
DeepHashVals == {4}

InitDeep ==
    /\ capacity = 2
    /\ slots = calloc(capacity)
    /\ size = 0
    /\ fnv \in [Keys -> DeepHashVals]
    /\ pc = "ready"
    /\ lastOp = Call("create", NULL, NULL, NULL, "none")
    /\ expect = [k \in Keys |-> NULL]
    /\ nIns = 0
    /\ nRem = 0
    /\ onlyIns = TRUE
    /\ distinctIns = TRUE
    /\ keyHeap = 0
    /\ limits = [ins |-> MaxIns + 1, cap |-> MaxCap]

SpecDeep == InitDeep /\ [][Next]_vars

\* the (key, value) pairs of the Occupied slots
Pairs(s) == {<<s[i].key, s[i].value>> : i \in Occupied(s)}

\* C17 (as claimed): whenever a hashmap_insert has run hashtable_expand to its
\* end, the expansion doubled the capacity and made a slot array without
\* Tombstone that holds exactly the (key, value) pairs of the old Occupied
\* slots, one Occupied slot for each, and hashmap_get of each of these keys
\* gives the same value in the new array as in the old one.
C17_ExpandKeepsPairs ==
    [][(lastOp'.op = "insert" /\ capacity' # capacity) =>
          \E e \in {hashtable_expand(slots, capacity, TRUE)} :
              /\ ~e.hang
              /\ e.capacity = HT_EXPANSION_FACTOR * capacity
              /\ capacity' = e.capacity
              /\ \A i \in DOMAIN e.slots : e.slots[i].state # DELETED
              /\ Pairs(e.slots) = Pairs(slots)
              /\ Cardinality(Occupied(e.slots)) = Cardinality(Occupied(slots))
              /\ \A i \in Occupied(slots) :
                    hashmap_get(slots, capacity, slots[i].key) # Hang =>
                        hashmap_get(e.slots, e.capacity, slots[i].key)
                            = hashmap_get(slots, capacity, slots[i].key)]_vars

(* ---------------- the state machine of a slot ---------------- *)
\* a slot holds a key and a value exactly when it is Occupied
SlotWellFormed(slot) ==
    /\ (slot.key # NULL) <=> (slot.state = INSERTED)
    /\ (slot.value # NULL) <=> (slot.state = INSERTED)

\* the moves of one slot in a step without resize
SlotMove(old, new) ==
    CASE old.state = EMPTY -> new = old \/ new.state = INSERTED
      [] old.state = INSERTED ->
            \/ new.state = INSERTED /\ new.key = old.key
            \/ new.state = DELETED
      [] old.state = DELETED -> new = old \/ new.state = INSERTED

\* C18: in every reachable state each slot holds a key and a value exactly
\* when it is Occupied, and in every step without resize each slot moves
\* Empty -> Occupied, Occupied -> Occupied (same key), Occupied -> Tombstone
\* or Tombstone -> Occupied, or stays: none goes back to Empty.
C18_SlotStateMachine ==
    /\ [](\A i \in DOMAIN slots : SlotWellFormed(slots[i]))
    /\ [][capacity' = capacity =>
              /\ DOMAIN slots' = DOMAIN slots
              /\ \A i \in DOMAIN slots : SlotMove(slots[i], slots'[i])]_vars

\* C18 witness: at the initial capacity 2 a key was removed and an insert has
\* then turned the Tombstone into an Occupied slot.
C18_Witness ==
    /\ pc = "ready" /\ lastOp.op = "insert" /\ lastOp.ret # NULL
    /\ capacity = 2 /\ nRem > 0 /\ nIns = 2
    /\ \E i \in DOMAIN slots : slots[i].state = INSERTED
    /\ \A i \in DOMAIN slots : slots[i].state # DELETED

(* ---------------- hash_key as a function ---------------- *)
\* hash_key(str, rounds, m) for one key string with base hash k, m > HT_PRIME:
\* k, m and the rounds are drawn from the sets below; k includes 2^31 - 1, a
\* hash far above every capacity, and (h1 + rounds * h2) stays far below 2^64.
MaxM == 80
MaxHash == 100
MaxRounds == 5
HashCaps == (HT_PRIME + 1)..MaxM
BaseHashes == 0..MaxHash \cup {2147483647}
TheKey == {1}

InitHash ==
    /\ capacity \in HashCaps
    /\ slots = calloc(capacity)
    /\ size = 0
    /\ fnv \in [TheKey -> BaseHashes]
    /\ pc = "ready"
    /\ lastOp = Call("create", NULL, NULL, NULL, "none")
    /\ expect = [k \in TheKey |-> NULL]
    /\ nIns = 0
    /\ nRem = 0
    /\ onlyIns = TRUE
    /\ distinctIns = TRUE
    /\ keyHeap = 0
    /\ limits = [ins |-> 0, cap |-> capacity]

\* a call hash_key(key, rounds, hm->capacity); lastOp records the rounds in its
\* value field and the index in ret
HashKey ==
    \E key \in DOMAIN fnv, rounds \in 0..MaxRounds :
        /\ pc = "ready"
        /\ lastOp' = Call("hash_key", key, rounds, hash_key(key, rounds, capacity),
                          "none")
        /\ UNCHANGED <<slots, size, capacity, fnv, pc, expect, nIns, nRem, onlyIns,
                       distinctIns, keyHeap, limits>>

NextHash == HashKey

SpecHash == InitHash /\ [][NextHash]_vars

\* C19: for a capacity m > 37, hash_key(key, r, m) is
\* (k mod m + r * (37 + k mod (m - 37))) mod m, it lies in [0, m), the step
\* 37 + k mod (m - 37) is not 0 modulo m, and round r + 1 gives another index
\* than round r.
C19_HashKeyFormula ==
    (lastOp.op = "hash_key" /\ capacity > HT_PRIME) =>
        LET k == fnv[lastOp.key]
            m == capacity
            r == lastOp.value
            step == 37 + (k % (m - 37))
        IN  /\ lastOp.ret = ((k % m) + r * step) % m
            /\ lastOp.ret \in 0..(m - 1)
            /\ step % m # 0
            /\ hash_key(lastOp.key, r + 1, m) # lastOp.ret

\* C19 witness: a call at capacity 64 with a hash far above the capacity,
\* at a round where h1 + r * h2 has passed the capacity.
C19_Witness ==
    /\ lastOp.op = "hash_key" /\ capacity = 64
    /\ fnv[lastOp.key] = 2147483647
    /\ lastOp.value = MaxRounds
    /\ lastOp.ret # fnv[lastOp.key] % capacity

(* ---------------- a removed key ---------------- *)
\* C20 (as claimed): a key whose removal hashmap_remove has reported, and that
\* was not inserted since, is absent for hashmap_get in every later state,
\* whatever was inserted, removed or resized in between.  (expect[k] is NULL
\* for such a key, and for a key that was never inserted.)
C20_RemovedKeyStaysAbsent ==
    \A k \in DOMAIN fnv :
        (expect[k] = NULL /\ pc = "ready") =>
            hashmap_get(slots, capacity, k) \in {NULL, Hang}
====
